---- MODULE Spec2Model ----
(***************************************************************************)
(* State-machine model of the AWS study partner backend:                   *)
(*   backend/app/rag_engine.py  ConversationHistory, EnhancedAWSStudyPartner*)
(*   backend/app/api.py         the HTTP handlers and the quiz store       *)
(* Texts are modelled as [id, len] (an identity and a character count), so *)
(* that a slice text[:n] is a computation and not the identity.            *)
(***************************************************************************)
EXTENDS Integers, Sequences, FiniteSets, TLC

VARIABLES
    study_partner,   \* api.study_partner is not None
    max_history,     \* ConversationHistory.max_history
    sessions,        \* ConversationHistory.sessions: session id -> list of entries
    index,           \* the documents held by the vector index, in similarity order
    active_quizzes,  \* api.active_quizzes: quiz id -> stored quiz
    str_hash,        \* parity of hash(text) in this process (PYTHONHASHSEED)
    clock,           \* time.time(), in ticks
    uuids,           \* number of uuid4() values drawn so far
    response,        \* what the last operation returned (or raised), with its request
    added,           \* history variable: per session id, the (question, answer)
                     \* pairs passed to add_message since the id was last cleared
    inflight         \* the query requests received and not yet answered, with
                     \* the position of each one's handler and its locals

vars == <<study_partner, max_history, sessions, index, active_quizzes,
          str_hash, clock, uuids, response, added, inflight>>

(***************************** bounds ***************************************)
MaxHistory == 2
MaxClock == 3
MaxUuids == 2
MaxDocs == 3
MaxQuizClock == 1
MaxEarlier == 3
MaxChunks == 3
MaxBatch == 2

(***************************** constants ************************************)
DefaultMaxHistory == 5
DefaultTopK == 5
MinTopK == 1
MaxTopK == 10
SourceTextChars == 300
HistoryTurns == 3
HistoryAnswerChars == 100
ExplainTopK == 6
CompareTopK == 8

None == "None"
NoResponse == [op |-> "none", status |-> 0]

Min(a, b) == IF a < b THEN a ELSE b
Max(a, b) == IF a > b THEN a ELSE b

(***************************** texts ****************************************)
\* text[:n] for n >= 0
Prefix(text, n) == [id |-> text.id, len |-> Min(text.len, n)]

\* text[:n] + "..."
Excerpt(text, n) == [id |-> text.id, len |-> Min(text.len, n) + 3, dots |-> TRUE]

\* lst[start:] with Python's rule for a negative or too large start
PySliceFrom(lst, start) ==
    LET lo == IF start < 0 THEN Max(Len(lst) + start, 0) ELSE Min(start, Len(lst))
    IN  SubSeq(lst, lo + 1, Len(lst))

\* lst[:n] for n >= 0
PySliceTo(lst, n) == SubSeq(lst, 1, Min(n, Len(lst)))

\* dict.get(key, default)
DictGet(d, key, default) == IF key \in DOMAIN d THEN d[key] ELSE default

\* d with d[key] = value
DictPut(d, key, value) ==
    [x \in DOMAIN d \cup {key} |-> IF x = key THEN value ELSE d[x]]

\* d after del d[key]
DictDel(d, key) == [x \in DOMAIN d \ {key} |-> d[x]]

Reverse(s) == [i \in 1..Len(s) |-> s[Len(s) + 1 - i]]

(***************************** binary64 arithmetic *************************)
\* TLC's integers are 32 bits wide and a double's significand has 53, so a
\* natural number is held in limbs of LimbBits bits, least significant
\* first, without leading zero limbs. Every double this program computes is
\* a multiple of 2^-FracBits in [0, 128); it is held as the natural number
\* of such units.
LimbBits == 15
Base == 2 ^ LimbBits
FracLimbs == 4
FracBits == FracLimbs * LimbBits
SigBits == 53

RECURSIVE LNorm(_)
LNorm(x) ==
    IF x = <<>> THEN <<>>
    ELSE IF x[Len(x)] = 0 THEN LNorm(SubSeq(x, 1, Len(x) - 1)) ELSE x

LimbAt(x, i) == IF i <= Len(x) THEN x[i] ELSE 0

RECURSIVE LAddC(_, _, _, _)
LAddC(x, y, i, c) ==
    IF i > Len(x) /\ i > Len(y) THEN (IF c = 0 THEN <<>> ELSE <<c>>)
    ELSE LET t == LimbAt(x, i) + LimbAt(y, i) + c
         IN  <<t % Base>> \o LAddC(x, y, i + 1, t \div Base)

LAdd(x, y) == LAddC(x, y, 1, 0)

\* x - y for x >= y
RECURSIVE LSubC(_, _, _, _)
LSubC(x, y, i, c) ==
    IF i > Len(x) THEN <<>>
    ELSE LET t == x[i] - LimbAt(y, i) - c
         IN  <<t % Base>> \o LSubC(x, y, i + 1, IF t < 0 THEN 1 ELSE 0)

LSub(x, y) == LNorm(LSubC(x, y, 1, 0))

\* x * n for a small integer n >= 0
RECURSIVE LMulC(_, _, _, _)
LMulC(x, n, i, c) ==
    IF i > Len(x) THEN (IF c = 0 THEN <<>> ELSE <<c % Base>> \o LMulC(x, n, i, c \div Base))
    ELSE LET t == x[i] * n + c
         IN  <<t % Base>> \o LMulC(x, n, i + 1, t \div Base)

LMulInt(x, n) == LNorm(LMulC(x, n, 1, 0))

\* long division of x by the small integer t > 0, most significant limb
\* first: [q |-> the quotient, r |-> the remainder]
RECURSIVE LDivC(_, _, _)
LDivC(x, t, i) ==
    IF i > Len(x) THEN [q |-> <<>>, r |-> 0]
    ELSE LET hi == LDivC(x, t, i + 1)
             n == hi.r * Base + x[i]
         IN  [q |-> <<n \div t>> \o hi.q, r |-> n % t]

LDivInt(x, t) == LET d == LDivC(x, t, 1) IN [q |-> LNorm(d.q), r |-> d.r]

\* x >= y, both without leading zero limbs
RECURSIVE LGeqFrom(_, _, _)
LGeqFrom(x, y, i) ==
    IF i = 0 THEN TRUE
    ELSE IF x[i] # y[i] THEN x[i] > y[i]
    ELSE LGeqFrom(x, y, i - 1)

LGeq(x, y) == IF Len(x) # Len(y) THEN Len(x) > Len(y) ELSE LGeqFrom(x, y, Len(x))

\* 2^k
LPow2(k) == [i \in 1..(k \div LimbBits + 1) |->
                IF i = k \div LimbBits + 1 THEN 2 ^ (k % LimbBits) ELSE 0]

\* the number of bits of x
BitLen(x) ==
    IF x = <<>> THEN 0
    ELSE (Len(x) - 1) * LimbBits
         + (CHOOSE k \in 1..LimbBits : 2 ^ (k - 1) <= x[Len(x)] /\ x[Len(x)] < 2 ^ k)

\* x mod 2^k
LowBits(x, k) ==
    LNorm([i \in 1..Min(Len(x), k \div LimbBits + 1) |->
              IF i = k \div LimbBits + 1 THEN x[i] % (2 ^ (k % LimbBits)) ELSE x[i]])

\* bit k of x (bit 0 is the least significant)
BitAt(x, k) == (LimbAt(x, k \div LimbBits + 1) \div (2 ^ (k % LimbBits))) % 2

\* x rounded to a multiple of 2^drop, to nearest, ties to even; x is exact
\* up to `sticky` (the true value exceeds x by less than one unit).
RoundAt(x, drop, sticky) ==
    IF drop <= 0 THEN x
    ELSE LET low  == LowBits(x, drop)
             half == LPow2(drop - 1)
             down == LSub(x, low)
             up   == \/ (LGeq(low, half) /\ low # half)
                     \/ (low = half /\ (sticky \/ BitAt(x, drop) = 1))
         IN  IF up THEN LAdd(down, LPow2(drop)) ELSE down

\* the double nearest to x (+ sticky): SigBits significant bits
RoundDouble(x, sticky) == RoundAt(x, BitLen(x) - SigBits, sticky)

\* float(n) for a small integer n >= 0
FInt(n) == IF n = 0 THEN <<>> ELSE [i \in 1..FracLimbs |-> 0] \o <<n>>

\* float(a) / float(b) for small integers a >= 0, b > 0
FDivInt(a, b) ==
    LET d == LDivInt(FInt(a), b)
    IN  RoundDouble(d.q, d.r # 0)

\* x * float(n) for a small integer n >= 0
FMulInt(x, n) == RoundDouble(LMulInt(x, n), FALSE)

\* x - y for x >= y
FSub(x, y) == RoundDouble(LSub(x, y), FALSE)

\* x >= y
FGeq(x, y) == LGeq(x, y)

\* the integer part of x
FFloor(x) == LimbAt(x, FracLimbs + 1) + Base * LimbAt(x, FracLimbs + 2)

\* the hundredths of round(x, 2): x * 100 rounded to an integer, ties to
\* even on the exact binary value
RoundHundredths(x) == FFloor(RoundAt(LMulInt(x, 100), FracBits, FALSE))

(***************************** inputs ***************************************)
SessionIds == {"s1", "s2"}
Questions == {"What is Amazon S3?", "Explain VPC peering"}
ShortAnswer == [id |-> "a1", len |-> 40]
LongAnswer == [id |-> "a2", len |-> 400]
AnswerTexts == {"x", "y"}
Topics == {None, "EC2"}
Difficulties == {None, "hard"}
Rankings == {"fwd", "rev"}
Outcomes == {"ok", "retrieval_error", "generation_error"}

\* str(uuid.uuid4()): the n-th value drawn; no two draws are equal
UuidNames == <<"u1", "u2", "u3", "u4", "u5", "u6", "u7", "u8">>
uuid4 == UuidNames[uuids + 1]
Issued == {UuidNames[i] : i \in 1..uuids}

\* f"q{i}"
QNames == <<"q1", "q2", "q3", "q4", "q5", "q6", "q7", "q8", "q9", "q10", "q11",
            "q12", "q13", "q14", "q15", "q16", "q17", "q18", "q19", "q20", "q21",
            "q22", "q23", "q24">>

\* x or default
Or(x, default) == IF x \in {None, ""} THEN default ELSE x

(***************************** the vector index *****************************)
\* A chunk as pdf_processor produces it and upload_documents stores it.
Doc(i) ==
    [page_content |-> [id |-> i, len |-> IF i % 2 = 0 THEN 250 ELSE 1000],
     metadata |->
        IF i % 3 = 0
        THEN [chunk_id |-> i - 1]
        ELSE IF i % 2 = 0
        THEN [source |-> "practice_test", doc_type |-> "questions",
              filename |-> "practice.pdf", chunk_id |-> i - 1]
        ELSE [source |-> "aws_certification_guide", doc_type |-> "study_guide",
              filename |-> "guide.pdf", chunk_id |-> i - 1]]

Corpus(d) == [i \in 1..d |-> Doc(i)]

\* vectorstore.similarity_search(query, k): the k nearest documents, nearest
\* first; rk is the order the service finds for this query text.
similarity_search(rk, k) ==
    PySliceTo(IF rk = "fwd" THEN index ELSE Reverse(index), k)

(***************************** ConversationHistory **************************)
Entry(question, answer, now) ==
    [question |-> question, answer |-> answer, timestamp |-> now]

\* faulty variant: the slice keeps the oldest entries, lst[:max_history]
add_message_keeps_oldest(sess, session_id, question, answer, now) ==
    LET s1 == IF session_id \notin DOMAIN sess
              THEN DictPut(sess, session_id, <<>>) ELSE sess
        s2 == [s1 EXCEPT ![session_id] = Append(@, Entry(question, answer, now))]
    IN  IF Len(s2[session_id]) > max_history
        THEN [s2 EXCEPT ![session_id] = PySliceTo(@, max_history)]
        ELSE s2

add_message(sess, session_id, question, answer, now) ==
    LET s1 == IF session_id \notin DOMAIN sess
              THEN DictPut(sess, session_id, <<>>) ELSE sess
        s2 == [s1 EXCEPT ![session_id] = Append(@, Entry(question, answer, now))]
    IN  IF Len(s2[session_id]) > max_history
        THEN [s2 EXCEPT ![session_id] = PySliceFrom(@, -max_history)]
        ELSE s2

get_history(sess, session_id) == DictGet(sess, session_id, <<>>)

\* faulty variant: every session is dropped, self.sessions.clear()
clear_session_all(sess, session_id) ==
    IF session_id \in DOMAIN sess THEN <<>> ELSE sess

\* faulty variant: the list is emptied and its key kept, self.sessions[session_id] = []
clear_session_keeps_key(sess, session_id) ==
    IF session_id \in DOMAIN sess THEN [sess EXCEPT ![session_id] = <<>>] ELSE sess

\* faulty variant: the membership test is inverted, so a stored session is kept
clear_session_inverted(sess, session_id) ==
    IF session_id \notin DOMAIN sess THEN DictDel(sess, session_id) ELSE sess

clear_session(sess, session_id) ==
    IF session_id \in DOMAIN sess THEN DictDel(sess, session_id) ELSE sess

\* the history variable, kept beside sessions
Logged(log, session_id, question, answer) ==
    DictPut(log, session_id,
            Append(DictGet(log, session_id, <<>>), <<question, answer>>))

Forgotten(log, session_id) == [x \in DOMAIN log \ {session_id} |-> log[x]]

(***************************** EnhancedAWSStudyPartner **********************)
\* faulty variant: ranks counted from one, 1.0 - ((i + 1) * 0.1)
relevance_score_from_one(i) == FSub(FInt(1), FMulInt(FDivInt(1, 10), i + 1))

\* 1.0 - (i * 0.1)
relevance_score(i) == FSub(FInt(1), FMulInt(FDivInt(1, 10), i))

RelevanceTable == [i \in 0..(MaxTopK - 1) |-> relevance_score(i)]

Sources(docs) ==
    [i \in 1..Len(docs) |->
        [text |-> Excerpt(docs[i].page_content, SourceTextChars),
         source |-> DictGet(docs[i].metadata, "source", "unknown"),
         doc_type |-> DictGet(docs[i].metadata, "doc_type", "unknown"),
         chunk_id |-> DictGet(docs[i].metadata, "chunk_id", -1),
         relevance_score |-> RelevanceTable[i - 1]]]

\* faulty variant: requests without a session id share one session
query_session_id_shared(session_id) ==
    IF session_id \in {None, ""} THEN "default" ELSE session_id

\* if not session_id: session_id = str(uuid.uuid4())
query_session_id(session_id) == IF session_id \in {None, ""} THEN uuid4 ELSE session_id

\* faulty variant: the whole history is rendered, history instead of history[-3:]
history_context_all(history) ==
    [i \in 1..Len(history) |->
        [question |-> history[i].question,
         answer |-> Excerpt(history[i].answer, HistoryAnswerChars)]]

\* The history block of the prompt: one rendered line pair per entry of
\* history[-3:], the answer as answer[:100] + "..."; no entry, no block.
history_context(history) ==
    LET recent == PySliceFrom(history, -HistoryTurns)
    IN  [i \in 1..Len(recent) |->
            [question |-> recent[i].question,
             answer |-> Excerpt(recent[i].answer, HistoryAnswerChars)]]

\* full_prompt: the retrieved chunks, the history block, the current question
full_prompt(docs, history, question) ==
    [context |-> [i \in 1..Len(docs) |-> docs[i].page_content],
     history_context |-> history_context(history),
     question |-> question]

\* faulty variant: a failed generation is tried a second time
query_calls_retry(outcome) ==
    IF outcome = "retrieval_error" THEN <<"get_history", "similarity_search">>
    ELSE IF outcome = "generation_error"
         THEN <<"get_history", "similarity_search", "llm.predict", "llm.predict">>
         ELSE <<"get_history", "similarity_search", "llm.predict", "add_message">>

\* The calls one request makes, in the order of the method's statements; an
\* exception of similarity_search or of llm.predict ends the method there.
query_calls(outcome) ==
    IF outcome = "retrieval_error" THEN <<"get_history", "similarity_search">>
    ELSE IF outcome = "generation_error"
         THEN <<"get_history", "similarity_search", "llm.predict">>
         ELSE <<"get_history", "similarity_search", "llm.predict", "add_message">>

\* faulty variant: the exception is swallowed and an empty result returned
FailurePartial(op, req, outcome, calls) ==
    [op |-> op, status |-> 200, req |-> req, question |-> req,
     answer |-> [id |-> "", len |-> 0], sources |-> <<>>, num_sources |-> 0,
     calls |-> calls]

\* except Exception as e: raise HTTPException(status_code=500, detail=...str(e))
Failure(op, req, outcome, calls) ==
    [op |-> op, status |-> 500, req |-> req, detail |-> outcome, calls |-> calls]

\* faulty variant: the question is recorded before the answer is generated,
\* so a failed generation leaves an entry behind
run_query_records_first(op, req, question, session_id, top_k, rk, outcome, answer) ==
    LET fresh == session_id \in {None, ""}
        sid == query_session_id(session_id)
        history == get_history(sessions, sid)
        docs == similarity_search(rk, top_k)
        sources == Sources(docs)
    IN  /\ fresh => uuids < MaxUuids
        /\ uuids' = IF fresh THEN uuids + 1 ELSE uuids
        /\ IF outcome # "retrieval_error"
           THEN /\ clock < MaxClock
                /\ sessions' = add_message(sessions, sid, question, answer, clock)
                /\ clock' = clock + 1
                /\ added' = Logged(added, sid, question, answer)
                /\ response' = IF outcome = "ok"
                               THEN [op |-> op, status |-> 200, req |-> req,
                                     question |-> question,
                                     answer |-> answer, sources |-> sources,
                                     num_sources |-> Len(sources), session_id |-> sid,
                                     prompt |-> full_prompt(docs, history, question),
                                     calls |-> query_calls(outcome)]
                               ELSE Failure(op, req, outcome, query_calls(outcome))
           ELSE /\ response' = Failure(op, req, outcome, query_calls(outcome))
                /\ UNCHANGED <<sessions, clock, added>>
        /\ UNCHANGED <<inflight, study_partner, max_history, index, active_quizzes, str_hash>>

\* EnhancedAWSStudyPartner.query behind the handler `op`, which was sent
\* `req`; an exception of the retrieval or of the generator becomes the
\* handler's 500.
run_query(op, req, question, session_id, top_k, rk, outcome, answer) ==
    LET fresh == session_id \in {None, ""}
        sid == query_session_id(session_id)
        history == get_history(sessions, sid)
        docs == similarity_search(rk, top_k)
        sources == Sources(docs)
    IN  /\ fresh => uuids < MaxUuids
        /\ uuids' = IF fresh THEN uuids + 1 ELSE uuids
        /\ IF outcome = "ok"
           THEN /\ clock < MaxClock
                /\ sessions' = add_message(sessions, sid, question, answer, clock)
                /\ clock' = clock + 1
                /\ added' = Logged(added, sid, question, answer)
                /\ response' = [op |-> op, status |-> 200, req |-> req,
                                question |-> question,
                                answer |-> answer, sources |-> sources,
                                num_sources |-> Len(sources), session_id |-> sid,
                                prompt |-> full_prompt(docs, history, question),
                                calls |-> query_calls(outcome)]
           ELSE /\ response' = Failure(op, req, outcome, query_calls(outcome))
                /\ UNCHANGED <<sessions, clock, added>>
        /\ UNCHANGED <<inflight, study_partner, max_history, index, active_quizzes, str_hash>>

\* study_partner.query(question, session_id, top_k, include_history=True)
study_partner_query(op, question, session_id, top_k, rk, outcome, answer) ==
    run_query(op, [question |-> question, session_id |-> session_id,
                   top_k |-> top_k, rk |-> rk],
              question, session_id, top_k, rk, outcome, answer)

\* A question text built by explain_concept or compare_services is the
\* sequence of the pieces its f-string joins.
Contains(text, piece) == \E i \in DOMAIN text : text[i] = piece

DetailLevels == {"brief", "medium", "detailed"}

detail_instructions ==
    [brief |-> <<"Provide a ", "concise 2-3 sentence", " explanation.">>,
     medium |-> <<"Provide a comprehensive explanation with key features and use cases.">>,
     detailed |-> <<"Provide an in-depth explanation with features, use cases, ",
                    "best practices, and exam tips.">>]

\* faulty variant: an unknown level falls back to the first instruction
instruction_first(detail_level) ==
    DictGet(detail_instructions, detail_level, detail_instructions["brief"])

\* detail_instructions.get(detail_level, detail_instructions["medium"])
instruction(detail_level) ==
    DictGet(detail_instructions, detail_level, detail_instructions["medium"])

\* faulty variant: the extra items are added at every level but brief
additional_items_unless_brief(detail_level) ==
    IF detail_level # "brief" THEN <<"4. Best practices", "5. Exam tips">> ELSE <<>>

\* if detail_level == "detailed": additional_items = "\n4. Best practices\n5. Exam tips"
additional_items(detail_level) ==
    IF detail_level = "detailed" THEN <<"4. Best practices", "5. Exam tips">> ELSE <<>>

explain_question(concept, detail_level) ==
    <<"Explain the AWS concept: ", concept>>
    \o instruction(detail_level)
    \o <<"Include:", "1. What it is", "2. Key features", "3. Common use cases">>
    \o additional_items(detail_level)
    \o <<"Keep the explanation clear and educational.">>

\* faulty variant: top_k is not passed on, self.query(question)
explain_concept_default_k(op, req, concept, detail_level, rk, outcome, answer) ==
    run_query(op, req, explain_question(concept, detail_level), None, DefaultTopK,
              rk, outcome, answer)

\* EnhancedAWSStudyPartner.explain_concept: return self.query(question, top_k=6)
explain_concept(op, req, concept, detail_level, rk, outcome, answer) ==
    run_query(op, req, explain_question(concept, detail_level), None, ExplainTopK,
              rk, outcome, answer)

\* aspects: a list of strings, empty for None or []
compare_question(service1, service2, aspects) ==
    <<"Compare ", service1, " and ", service2, ".">>
    \o (IF aspects # <<>> THEN <<"Focus on these aspects: ">> \o aspects ELSE <<>>)
    \o <<"Include:", "1. Key differences", "2. When to use each",
         "3. Pricing considerations", "4. Performance characteristics",
         "5. Common use cases", "Provide a clear comparison table format.">>

\* EnhancedAWSStudyPartner.compare_services: return self.query(question, top_k=8)
compare_services(op, req, service1, service2, aspects, rk, outcome, answer) ==
    run_query(op, req, compare_question(service1, service2, aspects), None, CompareTopK,
              rk, outcome, answer)

QuizQuestions(docs, topic, difficulty) ==
    [i \in 1..Len(docs) |->
        [id |-> QNames[i],
         question |-> docs[i].page_content,
         topic |-> Or(topic, "General AWS"),
         difficulty |-> Or(difficulty, "medium"),
         source |-> DictGet(docs[i].metadata, "filename", "unknown")]]

\* faulty variant: every candidate becomes a question, docs instead of docs[:num_questions]
generate_quiz_unsliced(quiz_id, topic, num_questions, difficulty, rk) ==
    LET docs == similarity_search(rk, num_questions * 3)
        questions == QuizQuestions(docs, topic, difficulty)
    IN  [quiz_id |-> quiz_id, topic |-> Or(topic, "General AWS"),
         questions |-> questions, total_questions |-> Len(questions)]

\* EnhancedAWSStudyPartner.generate_quiz: the dictionary it returns
generate_quiz(quiz_id, topic, num_questions, difficulty, rk) ==
    LET docs == similarity_search(rk, num_questions * 3)
        questions == QuizQuestions(PySliceTo(docs, num_questions), topic, difficulty)
    IN  [quiz_id |-> quiz_id, topic |-> Or(topic, "General AWS"),
         questions |-> questions, total_questions |-> Len(questions)]

TopicsOf(question) ==
    IF question = "What is Amazon S3?" THEN {"S3"}
    ELSE IF question = "Explain VPC peering" THEN {"VPC"} ELSE {}

\* EnhancedAWSStudyPartner.get_session_info
get_session_info(session_id) ==
    LET history == get_history(sessions, session_id)
    IN  IF history = <<>>
        THEN [session_id |-> session_id, exists |-> FALSE]
        ELSE [session_id |-> session_id, exists |-> TRUE,
              questions_asked |-> Len(history),
              topics_covered |-> UNION {TopicsOf(history[i].question) : i \in 1..Len(history)},
              first_question_time |-> history[1].timestamp,
              last_active |-> history[Len(history)].timestamp]

(***************************** grading **************************************)
PassPercent == 70
QuestionTextChars == 100
MinNumQuestions == 1
MaxNumQuestions == 20

\* faulty variant: the hash is salted with the number of stored quizzes
is_correct_salted(user_answer) ==
    IF user_answer # ""
    THEN (str_hash[user_answer] + Cardinality(DOMAIN active_quizzes)) % 2 = 1
    ELSE FALSE

\* bool(hash(user_answer) % 2) if user_answer else False
is_correct(user_answer) == IF user_answer # "" THEN str_hash[user_answer] % 2 = 1 ELSE FALSE

\* faulty variant: only the questions the submission answers are graded
GradeResultsAnswered(quiz, answers) ==
    LET asked == SelectSeq(quiz.questions, LAMBDA q : q.id \in DOMAIN answers)
    IN  [i \in 1..Len(asked) |->
            [question_id |-> asked[i].id,
             question |-> Excerpt(asked[i].question, QuestionTextChars),
             user_answer |-> answers[asked[i].id],
             is_correct |-> is_correct(answers[asked[i].id])]]

GradeResults(quiz, answers) ==
    [i \in 1..Len(quiz.questions) |->
        LET user_answer == DictGet(answers, quiz.questions[i].id, "")
        IN  [question_id |-> quiz.questions[i].id,
             question |-> Excerpt(quiz.questions[i].question, QuestionTextChars),
             user_answer |-> user_answer,
             is_correct |-> is_correct(user_answer)]]

\* faulty variant: a quiz without questions counts as fully answered
ScoreEmptyPerfect(correct, total) ==
    IF total > 0 THEN FMulInt(FDivInt(correct, total), 100) ELSE FInt(100)

\* (correct / total * 100) if total > 0 else 0
Score(correct, total) == IF total > 0 THEN FMulInt(FDivInt(correct, total), 100) ELSE FInt(0)

\* faulty variant: score > 70
PassedStrict(score) == FGeq(score, FInt(PassPercent)) /\ score # FInt(PassPercent)

\* score >= 70
Passed(score) == FGeq(score, FInt(PassPercent))

\* round(score, 2), in hundredths, and passed, for every total the API admits
ScoreTable ==
    [total \in 0..MaxNumQuestions |->
        [correct \in 0..total |->
            [score |-> RoundHundredths(Score(correct, total)),
             passed |-> Passed(Score(correct, total))]]]

\* the QuizResult of submit_quiz
Graded(quiz_id, quiz, answers) ==
    LET results == GradeResults(quiz, answers)
        correct == Cardinality({i \in 1..Len(results) : results[i].is_correct})
        total == Len(quiz.questions)
    IN  [op |-> "submit_quiz", status |-> 200,
         req |-> [quiz_id |-> quiz_id, answers |-> answers], quiz_id |-> quiz_id,
         score |-> ScoreTable[total][correct].score, total_questions |-> total,
         correct_answers |-> correct, results |-> results,
         passed |-> ScoreTable[total][correct].passed]

(***************************** actions **************************************)
\* faulty variant: the missing partner is reported as a server error
UnavailableAsServerError(op) ==
    /\ response' = [op |-> op, status |-> 500]
    /\ UNCHANGED <<inflight, study_partner, max_history, sessions, index, active_quizzes,
                   str_hash, clock, uuids, added>>

\* HTTPException(status_code=503): the study partner failed to construct
Unavailable(op) ==
    /\ response' = [op |-> op, status |-> 503]
    /\ UNCHANGED <<inflight, study_partner, max_history, sessions, index, active_quizzes,
                   str_hash, clock, uuids, added>>

\* ConversationHistory.add_message, called on the partner's store
AddMessage(session_id, question, answer) ==
    /\ study_partner
    /\ clock < MaxClock
    /\ sessions' = add_message(sessions, session_id, question, answer, clock)
    /\ clock' = clock + 1
    /\ added' = Logged(added, session_id, question, answer)
    /\ response' = [op |-> "add_message", status |-> 200, session_id |-> session_id]
    /\ UNCHANGED <<inflight, study_partner, max_history, index, active_quizzes, str_hash, uuids>>

\* faulty variant: the lookup stores the default, sessions.setdefault(session_id, [])
GetHistoryCreates(session_id) ==
    /\ study_partner
    /\ response' = [op |-> "get_history", status |-> 200, session_id |-> session_id,
                    history |-> get_history(sessions, session_id)]
    /\ sessions' = IF session_id \in DOMAIN sessions THEN sessions
                   ELSE DictPut(sessions, session_id, <<>>)
    /\ UNCHANGED <<inflight, study_partner, max_history, index, active_quizzes,
                   str_hash, clock, uuids, added>>

\* ConversationHistory.get_history, called on the partner's store
GetHistory(session_id) ==
    /\ study_partner
    /\ response' = [op |-> "get_history", status |-> 200, session_id |-> session_id,
                    history |-> get_history(sessions, session_id)]
    /\ UNCHANGED <<inflight, study_partner, max_history, sessions, index, active_quizzes,
                   str_hash, clock, uuids, added>>

\* DELETE /api/session/{session_id}
ClearSession(session_id) ==
    IF ~study_partner THEN Unavailable("clear_session")
    ELSE /\ sessions' = clear_session(sessions, session_id)
         /\ added' = Forgotten(added, session_id)
         /\ response' = [op |-> "clear_session", status |-> 200, session_id |-> session_id]
         /\ UNCHANGED <<inflight, study_partner, max_history, index, active_quizzes,
                        str_hash, clock, uuids>>

\* GET /api/session/{session_id}
GetSession(session_id) ==
    IF ~study_partner THEN Unavailable("get_session")
    ELSE /\ response' = [op |-> "get_session", status |-> 200,
                         info |-> get_session_info(session_id)]
         /\ UNCHANGED <<inflight, study_partner, max_history, sessions, index, active_quizzes,
                        str_hash, clock, uuids, added>>

\* POST /api/query
Query(question, session_id, top_k, rk, outcome, answer) ==
    IF ~study_partner THEN Unavailable("query")
    ELSE study_partner_query("query", question, session_id, top_k, rk, outcome, answer)

\* The request body does not match its schema: the framework answers 422
\* and the handler is not called.
Invalid(op, req) ==
    /\ response' = [op |-> op, status |-> 422, req |-> req]
    /\ UNCHANGED <<inflight, study_partner, max_history, sessions, index, active_quizzes,
                   str_hash, clock, uuids, added>>

\* POST /api/explain; ExplainRequest.detail_level has pattern ^(brief|medium|detailed)$
Explain(concept, detail_level, rk, outcome, answer) ==
    LET req == [concept |-> concept, detail_level |-> detail_level]
    IN  IF detail_level \notin DetailLevels THEN Invalid("explain", req)
        ELSE IF ~study_partner THEN Unavailable("explain")
        ELSE explain_concept("explain", req, concept, detail_level, rk, outcome, answer)

\* EnhancedAWSStudyPartner.explain_concept, called on the partner itself
ExplainConcept(concept, detail_level, rk, outcome, answer) ==
    /\ study_partner
    /\ explain_concept("explain_concept", [concept |-> concept, detail_level |-> detail_level],
                       concept, detail_level, rk, outcome, answer)

\* POST /api/compare
Compare(service1, service2, aspects, rk, outcome, answer) ==
    IF ~study_partner THEN Unavailable("compare")
    ELSE compare_services("compare",
                          [service1 |-> service1, service2 |-> service2, aspects |-> aspects],
                          service1, service2, aspects, rk, outcome, answer)

\* GET /health
HealthCheck ==
    /\ response' = [op |-> "health_check", status |-> 200,
                    health |-> IF study_partner THEN "healthy" ELSE "degraded",
                    study_partner_initialized |-> study_partner]
    /\ UNCHANGED <<inflight, study_partner, max_history, sessions, index, active_quizzes,
                   str_hash, clock, uuids, added>>

RECURSIVE SumTotalQuestions(_)
SumTotalQuestions(ids) ==
    IF ids = {} THEN 0
    ELSE LET id == CHOOSE x \in ids : TRUE
         IN  DictGet(active_quizzes[id], "total_questions", 0) + SumTotalQuestions(ids \ {id})

\* GET /api/stats
GetStats ==
    /\ response' = IF ~study_partner
                   THEN [op |-> "get_stats", status |-> 200,
                         study_partner_initialized |-> FALSE,
                         active_sessions |-> 0, active_quizzes |-> 0]
                   ELSE [op |-> "get_stats", status |-> 200,
                         study_partner_initialized |-> TRUE,
                         active_sessions |-> Cardinality(DOMAIN sessions),
                         active_quizzes |-> Cardinality(DOMAIN active_quizzes),
                         total_quiz_questions |-> SumTotalQuestions(DOMAIN active_quizzes)]
    /\ UNCHANGED <<inflight, study_partner, max_history, sessions, index, active_quizzes,
                   str_hash, clock, uuids, added>>

\* QuizResponse(**result): a QuizQuestion has no source field
QuizResponse(req, result) ==
    [op |-> "generate_quiz", status |-> 200, req |-> req, quiz_id |-> result.quiz_id,
     topic |-> result.topic,
     questions |-> [i \in 1..Len(result.questions) |->
                      [id |-> result.questions[i].id,
                       question |-> result.questions[i].question,
                       topic |-> result.questions[i].topic,
                       difficulty |-> result.questions[i].difficulty]],
     total_questions |-> result.total_questions]

\* POST /api/quiz/generate
GenerateQuiz(topic, num_questions, difficulty, rk, outcome) ==
    IF ~study_partner THEN Unavailable("generate_quiz")
    ELSE /\ uuids < MaxUuids
         /\ uuids' = uuids + 1
         /\ LET req == [topic |-> topic, num_questions |-> num_questions,
                         difficulty |-> difficulty, rk |-> rk]
            IN  IF outcome = "ok"
                THEN LET result == generate_quiz(uuid4, topic, num_questions, difficulty, rk)
                     IN  /\ active_quizzes' = DictPut(active_quizzes, result.quiz_id, result)
                         /\ response' = QuizResponse(req, result)
                ELSE /\ response' = [op |-> "generate_quiz", status |-> 500, req |-> req,
                                     detail |-> outcome]
                     /\ UNCHANGED active_quizzes
         /\ UNCHANGED <<inflight, study_partner, max_history, sessions, index, str_hash,
                        clock, added>>

\* faulty variant: an unknown quiz id is graded as a quiz without questions
SubmitQuizDefaultsEmpty(quiz_id, answers) ==
    /\ response' = Graded(quiz_id, DictGet(active_quizzes, quiz_id, [questions |-> <<>>]),
                          answers)
    /\ UNCHANGED <<inflight, study_partner, max_history, sessions, index, active_quizzes,
                   str_hash, clock, uuids, added>>

\* faulty variant: grading consumes the quiz, active_quizzes.pop(quiz_id)
SubmitQuizPops(quiz_id, answers) ==
    /\ response' = IF quiz_id \notin DOMAIN active_quizzes
                   THEN [op |-> "submit_quiz", status |-> 404,
                         req |-> [quiz_id |-> quiz_id, answers |-> answers]]
                   ELSE Graded(quiz_id, active_quizzes[quiz_id], answers)
    /\ active_quizzes' = IF quiz_id \in DOMAIN active_quizzes
                         THEN DictDel(active_quizzes, quiz_id) ELSE active_quizzes
    /\ UNCHANGED <<inflight, study_partner, max_history, sessions, index,
                   str_hash, clock, uuids, added>>

\* POST /api/quiz/submit
SubmitQuiz(quiz_id, answers) ==
    /\ response' = IF quiz_id \notin DOMAIN active_quizzes
                   THEN [op |-> "submit_quiz", status |-> 404,
                         req |-> [quiz_id |-> quiz_id, answers |-> answers]]
                   ELSE Graded(quiz_id, active_quizzes[quiz_id], answers)
    /\ UNCHANGED <<inflight, study_partner, max_history, sessions, index, active_quizzes,
                   str_hash, clock, uuids, added>>

(***************************** specifications *******************************)
\* The state after construction: the partner built or not, the store
\* configured with max_history, the index holding d documents.
InitWith(histories, docs, hashes) ==
    /\ study_partner \in BOOLEAN
    /\ max_history \in histories
    /\ sessions = <<>>
    /\ index \in {Corpus(d) : d \in docs}
    /\ active_quizzes = <<>>
    /\ str_hash \in hashes
    /\ clock = 0
    /\ uuids = 0
    /\ response = NoResponse
    /\ added = <<>>
    /\ inflight = <<>>

\* hash(text) % 2 for the two answer texts: "x" odd, "y" even
OneHash == {[t \in AnswerTexts |-> IF t = "x" THEN 1 ELSE 0]}
AllHashes == [AnswerTexts -> {0, 1}]

\* --- the conversation store and the query handler ------------------------
Init == InitWith(0..MaxHistory, {MaxDocs}, OneHash)

Next ==
    \/ \E s \in SessionIds, q \in Questions : AddMessage(s, q, ShortAnswer)
    \/ \E s \in SessionIds : GetHistory(s)
    \/ \E s \in SessionIds \cup Issued : ClearSession(s)
    \/ \E s \in SessionIds \cup Issued : GetSession(s)
    \/ \E s \in {"s1", None, ""}, o \in Outcomes :
          Query("What is Amazon S3?", s, DefaultTopK, "fwd", o, LongAnswer)

Spec == Init /\ [][Next]_vars

\* --- queries over every index size and every top_k -----------------------
InitQuery == InitWith({DefaultMaxHistory}, 0..(MaxTopK + 1), OneHash)

NextQuery ==
    \/ \E k \in MinTopK..MaxTopK, rk \in Rankings, o \in Outcomes :
          Query("What is Amazon S3?", "s1", k, rk, o, ShortAnswer)
    \/ ClearSession("s1")

SpecQuery == InitQuery /\ [][NextQuery]_vars

\* --- the quiz store ------------------------------------------------------
\* answers: every mapping of some of q1, q2 to an answer text, an empty
\* answer, and answers under a key that is no question id
AnswerMaps ==
    UNION {[keys -> AnswerTexts] : keys \in SUBSET {"q1", "q2"}}
    \cup {[q1 |-> ""], [zz |-> "x"], [q1 |-> "x", zz |-> "x"]}

InitQuiz == InitWith({DefaultMaxHistory}, 0..MaxDocs, OneHash)

NextQuiz ==
    \/ \E t \in Topics, n \in {MinNumQuestions, 3, MaxNumQuestions},
          o \in {"ok", "retrieval_error"} :
          GenerateQuiz(t, n, None, "fwd", o)
    \/ \E id \in Issued \cup {"nope"}, answers \in AnswerMaps : SubmitQuiz(id, answers)
    \/ \E o \in Outcomes :
          /\ clock < MaxQuizClock
          /\ Query("What is Amazon S3?", "s1", DefaultTopK, "fwd", o, ShortAnswer)
    \/ ClearSession("s1")

SpecQuiz == InitQuiz /\ [][NextQuiz]_vars

\* --- grading quizzes of every size ---------------------------------------
\* answers: "x" (graded correct under OneHash) to the first j questions,
\* "y" (graded incorrect) to the others
FirstRight(j) == [k \in {QNames[i] : i \in 1..MaxNumQuestions} |->
                    IF k \in {QNames[i] : i \in 1..j} THEN "x" ELSE "y"]

InitGrade == InitWith({DefaultMaxHistory}, 0..MaxNumQuestions, OneHash)

NextGrade ==
    \/ GenerateQuiz(None, MaxNumQuestions, None, "fwd", "ok")
    \/ \E id \in Issued, j \in 0..MaxNumQuestions : SubmitQuiz(id, FirstRight(j))

SpecGrade == InitGrade /\ [][NextGrade]_vars

\* --- every endpoint, the partner constructed or not ------------------------
InitApi == InitWith({DefaultMaxHistory}, {0, CompareTopK + 1}, OneHash)

NextApi ==
    \/ \E s \in {"s1", None}, o \in Outcomes :
          Query("What is Amazon S3?", s, DefaultTopK, "fwd", o, ShortAnswer)
    \/ \E level \in DetailLevels \cup {"expert"}, o \in Outcomes :
          Explain("VPC peering", level, "fwd", o, ShortAnswer)
    \/ \E level \in DetailLevels \cup {"expert"}, o \in Outcomes :
          ExplainConcept("VPC peering", level, "fwd", o, ShortAnswer)
    \/ \E aspects \in {<<>>, <<"pricing">>}, o \in Outcomes :
          Compare("S3 Standard", "S3 Glacier", aspects, "fwd", o, ShortAnswer)
    \/ \E o \in {"ok", "retrieval_error"} : GenerateQuiz(None, 3, None, "fwd", o)
    \/ \E id \in Issued \cup {"nope"}, answers \in {<<>>, [q1 |-> "x"]} :
          SubmitQuiz(id, answers)
    \/ ClearSession("s1")
    \/ GetSession("s1")
    \/ HealthCheck
    \/ GetStats

SpecApi == InitApi /\ [][NextApi]_vars

\* --- conversations long enough to fill the window --------------------------
\* The clock starts MaxEarlier ticks before zero, so that one session can
\* hold more entries than the history block shows and than the store keeps.
InitPrompt ==
    /\ study_partner \in BOOLEAN
    /\ max_history = DefaultMaxHistory
    /\ sessions = <<>>
    /\ index = Corpus(MaxDocs)
    /\ active_quizzes = <<>>
    /\ str_hash \in OneHash
    /\ clock = 0 - MaxEarlier
    /\ uuids = 0
    /\ response = NoResponse
    /\ added = <<>>
    /\ inflight = <<>>

NextPrompt ==
    \/ \E o \in Outcomes, a \in {ShortAnswer, LongAnswer} :
          Query("What is Amazon S3?", "s1", DefaultTopK, "fwd", o, a)
    \/ \E o \in Outcomes : Query("Explain VPC peering", None, DefaultTopK, "fwd", o, ShortAnswer)
    \/ ClearSession("s1")

SpecPrompt == InitPrompt /\ [][NextPrompt]_vars

\* --- several sessions next to the quiz store ------------------------------
InitSessions == InitWith(0..MaxHistory, {MaxDocs}, OneHash)

NextSessions ==
    \/ \E s \in SessionIds : AddMessage(s, "Explain VPC peering", ShortAnswer)
    \/ \E s \in SessionIds, o \in Outcomes :
          Query("What is Amazon S3?", s, DefaultTopK, "fwd", o, ShortAnswer)
    \/ \E s \in SessionIds : ClearSession(s)
    \/ \E s \in SessionIds : GetSession(s)
    \/ GetStats
    \/ \E o \in {"ok", "retrieval_error"} : GenerateQuiz(None, MinNumQuestions, None, "fwd", o)
    \/ \E id \in Issued \cup {"nope"} : SubmitQuiz(id, [q1 |-> "x"])

SpecSessions == InitSessions /\ [][NextSessions]_vars

\* --- grading under every hash seed -----------------------------------------
InitVerdict == InitWith({DefaultMaxHistory}, {MaxDocs}, AllHashes)

NextVerdict ==
    \/ \E n \in {MinNumQuestions, 3} : GenerateQuiz(None, n, None, "fwd", "ok")
    \/ \E id \in Issued, answers \in AnswerMaps : SubmitQuiz(id, answers)

SpecVerdict == InitVerdict /\ [][NextVerdict]_vars

(***************************** ingestion ************************************)
\* VectorStoreManager.upload_documents. A chunk list of len chunks is the
\* list chunk 0 .. chunk len-1; chunk j is stored as Doc(j + 1), whose
\* chunk_id is j.

\* faulty variant: the slice takes one chunk more, texts[i:end_idx + 1]
end_idx_inclusive(i, batch_size, len) == Min(i + batch_size + 1, len)

\* end_idx = min(i + batch_size, len(texts))
end_idx(i, batch_size, len) == Min(i + batch_size, len)

\* range(start_from, len(texts), batch_size), as the batches [from, to)
\* cut by texts[i:end_idx]
Batches(len, batch_size, start_from) ==
    LET count == IF start_from >= len THEN 0
                 ELSE (len - start_from + batch_size - 1) \div batch_size
    IN  [k \in 1..count |->
            LET i == start_from + (k - 1) * batch_size
            IN  [from |-> i, to |-> end_idx(i, batch_size, len)]]

\* what from_texts / add_texts store for texts[from:to]
BatchDocs(from, to) == [k \in 1..(to - from) |-> Doc(from + k)]

RECURSIVE Stored(_, _)
Stored(batches, k) ==
    IF k = 0 THEN <<>>
    ELSE Stored(batches, k - 1) \o BatchDocs(batches[k].from, batches[k].to)

\* One call. fail = 0: every batch is stored and the call returns; fail = k:
\* batches 1..k-1 are stored, the service raises on batch k after storing the
\* first `partial` of its texts (0 when the service stores a batch whole or
\* not at all), the error is raised again and no later batch is attempted.
\* batch_size = 0 raises at line 141, before anything is sent.
\* The response records the batches attempted and, as history, the first
\* start_from of the chain of resumes this call belongs to and whether that
\* chain began on an empty index and met only whole-batch failures.
UploadDocuments(len, batch_size, start_from, fail, partial) ==
    LET req == [chunks |-> len, batch_size |-> batch_size, start_from |-> start_from]
        resumes == /\ response.op = "upload_documents"
                   /\ response.status = "raised"
                   /\ "failed_at" \in DOMAIN response
                   /\ response.req.chunks = len
                   /\ response.failed_at = start_from
        first == IF resumes THEN response.first ELSE start_from
        clean == IF resumes THEN response.clean ELSE index = <<>>
    IN  IF batch_size = 0
        THEN /\ fail = 0 /\ partial = 0
             /\ response' = [op |-> "upload_documents", status |-> "raised", req |-> req,
                             detail |-> "ZeroDivisionError", batches |-> <<>>,
                             first |-> first, clean |-> FALSE]
             /\ UNCHANGED <<inflight, study_partner, max_history, sessions, index, active_quizzes,
                            str_hash, clock, uuids, added>>
        ELSE LET batches == Batches(len, batch_size, start_from)
             IN  /\ fail <= Len(batches)
                 /\ IF fail = 0
                    THEN /\ partial = 0
                         /\ index' = index \o Stored(batches, Len(batches))
                         /\ response' = [op |-> "upload_documents", status |-> "returned",
                                         req |-> req, batches |-> batches,
                                         first |-> first, clean |-> clean]
                    ELSE /\ partial < batches[fail].to - batches[fail].from
                         /\ index' = index \o Stored(batches, fail - 1)
                                \o BatchDocs(batches[fail].from, batches[fail].from + partial)
                         /\ response' = [op |-> "upload_documents", status |-> "raised",
                                         req |-> req, detail |-> "add_texts",
                                         batches |-> SubSeq(batches, 1, fail),
                                         failed_at |-> batches[fail].from,
                                         first |-> first,
                                         clean |-> clean /\ partial = 0]
                 /\ Len(index') <= MaxChunks
                 /\ UNCHANGED <<inflight, study_partner, max_history, sessions, active_quizzes,
                                str_hash, clock, uuids, added>>

InitUpload == InitWith({DefaultMaxHistory}, {0}, OneHash)

NextUpload ==
    \E len \in 0..MaxChunks, batch_size \in 0..MaxBatch :
        \E start_from \in 0..len :
            \E fail \in 0..Len(Batches(len, Max(batch_size, 1), start_from)),
               partial \in 0..1 :
                UploadDocuments(len, batch_size, start_from, fail, partial)

SpecUpload == InitUpload /\ [][NextUpload]_vars

(***************************** requests in flight ***************************)
\* Two query requests, followed through the steps of the handler and of
\* EnhancedAWSStudyPartner.query. The server receives requests at any time;
\* a handler is a coroutine on the server's one event loop.
Requests == {"A", "B"}

Running == {"read", "retrieved", "generated"}

\* faulty variant: the handlers are plain functions, which the framework runs
\* on the threads of a pool
event_loop_free_threadpool(r) == TRUE

\* `async def query` holds no await: once the event loop has entered a
\* handler it runs it to its return, so a handler starts only while no other
\* one is between its first and its last statement.
event_loop_free(r) ==
    \A o \in DOMAIN inflight \ {r} : inflight[o].pc \notin Running

\* The server accepts the connection and validates the body.
Receive(r, question, session_id, outcome) ==
    /\ r \notin DOMAIN inflight
    /\ inflight' = DictPut(inflight, r,
                           [pc |-> "received", question |-> question,
                            session_id |-> session_id, outcome |-> outcome,
                            history |-> <<>>, overlapped |-> {}])
    /\ UNCHANGED <<study_partner, max_history, sessions, index, active_quizzes,
                   str_hash, clock, uuids, response, added>>

QueryReq(r) ==
    [question |-> inflight[r].question, session_id |-> inflight[r].session_id,
     top_k |-> DefaultTopK, rk |-> "fwd"]

\* The handler starts: 503 without a partner, else query() reads the history
\* of the session (lines 106-116).
ReadHistory(r) ==
    /\ r \in DOMAIN inflight /\ inflight[r].pc = "received"
    /\ event_loop_free(r)
    /\ IF ~study_partner
       THEN /\ inflight' = [inflight EXCEPT ![r].pc = "done"]
            /\ response' = [op |-> "query", status |-> 503]
       ELSE /\ inflight' =
                [inflight EXCEPT
                    ![r].pc = "read",
                    ![r].history = get_history(sessions, inflight[r].session_id),
                    ![r].overlapped = {o \in DOMAIN inflight \ {r} :
                                          inflight[o].pc # "done"}]
            /\ UNCHANGED response
    /\ UNCHANGED <<study_partner, max_history, sessions, index, active_quizzes,
                   str_hash, clock, uuids, added>>

\* self.vectorstore.similarity_search(question, k=top_k)
Retrieve(r) ==
    /\ r \in DOMAIN inflight /\ inflight[r].pc = "read"
    /\ IF inflight[r].outcome = "retrieval_error"
       THEN /\ inflight' = [inflight EXCEPT ![r].pc = "done"]
            /\ response' = Failure("query", QueryReq(r), "retrieval_error",
                                   query_calls("retrieval_error"))
       ELSE /\ inflight' = [inflight EXCEPT ![r].pc = "retrieved"]
            /\ UNCHANGED response
    /\ UNCHANGED <<study_partner, max_history, sessions, index, active_quizzes,
                   str_hash, clock, uuids, added>>

\* self.llm.predict(full_prompt)
Generate(r) ==
    /\ r \in DOMAIN inflight /\ inflight[r].pc = "retrieved"
    /\ IF inflight[r].outcome = "generation_error"
       THEN /\ inflight' = [inflight EXCEPT ![r].pc = "done"]
            /\ response' = Failure("query", QueryReq(r), "generation_error",
                                   query_calls("generation_error"))
       ELSE /\ inflight' = [inflight EXCEPT ![r].pc = "generated"]
            /\ UNCHANGED response
    /\ UNCHANGED <<study_partner, max_history, sessions, index, active_quizzes,
                   str_hash, clock, uuids, added>>

\* add_message(session_id, question, response) and the return
Record(r) ==
    /\ r \in DOMAIN inflight /\ inflight[r].pc = "generated"
    /\ clock < MaxClock
    /\ LET q == inflight[r].question
           sid == inflight[r].session_id
           docs == similarity_search("fwd", DefaultTopK)
       IN  /\ sessions' = add_message(sessions, sid, q, ShortAnswer, clock)
           /\ added' = Logged(added, sid, q, ShortAnswer)
           /\ response' = [op |-> "query", status |-> 200, req |-> QueryReq(r),
                           question |-> q, answer |-> ShortAnswer,
                           sources |-> Sources(docs), num_sources |-> Len(Sources(docs)),
                           session_id |-> sid,
                           prompt |-> full_prompt(docs, inflight[r].history, q),
                           calls |-> query_calls("ok")]
    /\ clock' = clock + 1
    /\ inflight' = [inflight EXCEPT ![r].pc = "done"]
    /\ UNCHANGED <<study_partner, max_history, index, active_quizzes, str_hash, uuids>>

InitRace == InitWith({DefaultMaxHistory}, {MaxDocs}, OneHash)

NextRace ==
    \/ \E r \in Requests, q \in Questions, s \in SessionIds, o \in Outcomes :
          Receive(r, q, s, o)
    \/ \E r \in Requests : ReadHistory(r)
    \/ \E r \in Requests : Retrieve(r)
    \/ \E r \in Requests : Generate(r)
    \/ \E r \in Requests : Record(r)

SpecRace == InitRace /\ [][NextRace]_vars

(***************************** claims ***************************************)
KnownIds == SessionIds \cup Issued \cup DOMAIN sessions
Pairs(history) == [i \in 1..Len(history) |-> <<history[i].question, history[i].answer>>]
LastOf(lst, n) == SubSeq(lst, Len(lst) - n + 1, Len(lst))
AbsDiff(x, y) == IF LGeq(x, y) THEN LSub(x, y) ELSE LSub(y, x)
\* |x - n/10| <= 2^-49 / 10, less than the spacing of doubles below 1.0
IsTenths(x, n) == LGeq(LPow2(FracBits - 49), AbsDiff(LMulInt(x, 10), FInt(n)))
FLess(x, y) == LGeq(y, x) /\ x # y

\* C1: for every session and every configured maximum N >= 0, the history
\* list has at most N entries once an operation has completed. (Stated as
\* claimed; the code breaks it for N = 0.)
C1_HistoryWithinMaximum ==
    \A s \in DOMAIN sessions : Len(sessions[s]) <= max_history

\* C2: with N >= 1, after k add_message calls on a session since it was
\* last cleared, get_history returns exactly the last min(k, N) added
\* (question, answer) pairs in the order added, oldest dropped first.
C2_LastPairsKept ==
    max_history >= 1 =>
        /\ \A s \in DOMAIN added :
              LET h == get_history(sessions, s)
              IN  /\ Pairs(h) = LastOf(added[s], Min(Len(added[s]), max_history))
                  /\ \A i \in 1..(Len(h) - 1) : h[i].timestamp < h[i + 1].timestamp
        /\ (response.op = "get_history" /\ response.session_id \in DOMAIN added) =>
              Pairs(response.history) =
                  LastOf(added[response.session_id],
                         Min(Len(added[response.session_id]), max_history))

C2_Witness ==
    /\ max_history = 2
    /\ response.op = "get_history"
    /\ response.session_id \in DOMAIN added
    /\ Len(added[response.session_id]) = 3
    /\ Len(response.history) = 2
    /\ Pairs(response.history)[1] # Pairs(response.history)[2]

\* C3: get_history on an id without stored history returns the empty list,
\* without an error, and no lookup changes the session map.
C3_LookupLeavesStore ==
    [][response'.op = "get_history" =>
          /\ response'.status = 200
          /\ sessions' = sessions
          /\ (response'.session_id \notin DOMAIN sessions => response'.history = <<>>)]_vars

C3_Witness ==
    /\ response.op = "get_history"
    /\ response.session_id \notin DOMAIN sessions
    /\ response.history = <<>>
    /\ sessions # <<>>

\* C4: after clear_session(s), get_history(s) is empty until the next add
\* for s; clearing twice is clearing once; clearing an unknown id changes
\* nothing and raises nothing.
C4_ClearEmpties ==
    /\ [](\A s \in KnownIds :
            /\ s \notin DOMAIN added => get_history(sessions, s) = <<>>
            /\ clear_session(clear_session(sessions, s), s) = clear_session(sessions, s)
            /\ s \notin DOMAIN sessions => clear_session(sessions, s) = sessions)
    /\ [][(response'.op = "clear_session" /\ study_partner) =>
            /\ response'.status = 200
            /\ get_history(sessions', response'.session_id) = <<>>
            /\ \A t \in KnownIds \ {response'.session_id} :
                  get_history(sessions', t) = get_history(sessions, t)]_vars

C4_Witness ==
    /\ response.op = "clear_session"
    /\ response.status = 200
    /\ response.session_id \notin DOMAIN sessions
    /\ DOMAIN sessions # {}
    /\ \E s \in DOMAIN sessions : sessions[s][1].timestamp > 0

\* C5: a successful query with top_k = k over an index of d documents
\* returns min(k, d) sources in rank order, num_sources is their number, the
\* score at rank i is 1.0 - 0.1 * i, and the scores are strictly decreasing
\* and positive.
C5_SourcesRanked ==
    (response.op = "query" /\ response.status = 200) =>
        LET src == response.sources
            ranked == IF response.req.rk = "fwd" THEN index ELSE Reverse(index)
        IN  /\ Len(src) = Min(response.req.top_k, Len(index))
            /\ response.num_sources = Len(src)
            /\ \A i \in 1..Len(src) :
                  /\ src[i].text.id = ranked[i].page_content.id
                  /\ IsTenths(src[i].relevance_score, 10 - (i - 1))
                  /\ FLess(FInt(0), src[i].relevance_score)
            /\ \A i \in 1..(Len(src) - 1) :
                  FLess(src[i + 1].relevance_score, src[i].relevance_score)

C5_Witness ==
    /\ response.op = "query"
    /\ response.status = 200
    /\ response.req.top_k = MaxTopK
    /\ response.req.rk = "rev"
    /\ Len(index) = MaxTopK + 1
    /\ response.num_sources = MaxTopK

\* C6: generate_quiz with num_questions = N returns N questions when the
\* retrieval yields at least N candidates and as many as there are candidates
\* otherwise, never more than N; total_questions is the length of the list
\* and the ids are q1, q2, ... in order.
C6_QuizSize ==
    (response.op = "generate_quiz" /\ response.status = 200) =>
        LET n == response.req.num_questions
            candidates == Min(3 * n, Len(index))
            qs == response.questions
        IN  /\ candidates >= n => Len(qs) = n
            /\ candidates < n => Len(qs) = candidates
            /\ Len(qs) <= n
            /\ response.total_questions = Len(qs)
            /\ \A i \in 1..Len(qs) : qs[i].id = QNames[i]
            /\ active_quizzes[response.quiz_id].total_questions = Len(qs)

C6_Witness ==
    /\ response.op = "generate_quiz"
    /\ response.status = 200
    /\ response.req.num_questions = 1
    /\ Len(index) = 3
    /\ Len(response.questions) = 1

\* C7: a submission for a quiz id that is not stored ends in 404 before any
\* grading: no score, no result, quiz store and session store unchanged.
C7_UnknownQuizNotFound ==
    [][(response'.op = "submit_quiz"
        /\ response'.req.quiz_id \notin DOMAIN active_quizzes) =>
          /\ response'.status = 404
          /\ DOMAIN response' \cap {"score", "results", "correct_answers", "passed"} = {}
          /\ active_quizzes' = active_quizzes
          /\ sessions' = sessions]_vars

C7_Witness ==
    /\ response.op = "submit_quiz"
    /\ response.status = 404
    /\ DOMAIN active_quizzes # {}
    /\ DOMAIN response.req.answers # {}

\* C8: for a graded quiz with total > 0 questions, correct of them marked
\* correct, the returned score is 100 * correct / total rounded to 2
\* decimals, and passed holds exactly when the returned score is at least
\* 70, that is when 100 * correct >= 70 * total.
C8_ScoreAndPass ==
    (response.op = "submit_quiz" /\ response.status = 200
     /\ response.total_questions > 0) =>
        LET c == response.correct_answers
            t == response.total_questions
            h == response.score
            e == h * t - 10000 * c
        IN  /\ 2 * (IF e < 0 THEN -e ELSE e) <= t
            /\ response.passed <=> h >= 100 * PassPercent
            /\ response.passed <=> 100 * c >= PassPercent * t

C8_Witness ==
    /\ response.op = "submit_quiz"
    /\ response.status = 200
    /\ response.total_questions = MaxNumQuestions
    /\ response.correct_answers = 14
    /\ response.passed
    /\ response.score = 7000

\* C9: a submission for a stored quiz of n questions, whatever the answers
\* mapping, returns total_questions = n, one result per question in quiz
\* order, and 0 <= correct_answers <= n.
C9_OneResultPerQuestion ==
    (response.op = "submit_quiz" /\ response.status = 200) =>
        LET quiz == active_quizzes[response.req.quiz_id]
            n == Len(quiz.questions)
        IN  /\ response.total_questions = n
            /\ quiz.total_questions = n
            /\ Len(response.results) = n
            /\ \A i \in 1..n : response.results[i].question_id = quiz.questions[i].id
            /\ response.correct_answers \in 0..n

C9_Witness ==
    /\ response.op = "submit_quiz"
    /\ response.status = 200
    /\ response.total_questions = 3
    /\ "zz" \in DOMAIN response.req.answers
    /\ response.correct_answers = 1

\* C10: a stored quiz is never modified and never removed: every step keeps
\* every stored quiz id with the same quiz.
C10_QuizzesImmutable ==
    [][\A id \in DOMAIN active_quizzes :
          /\ id \in DOMAIN active_quizzes'
          /\ active_quizzes'[id] = active_quizzes[id]]_vars

C10_Witness ==
    /\ Cardinality(DOMAIN active_quizzes) = 2
    /\ response.op = "submit_quiz"
    /\ response.status = 200
    /\ response.total_questions > 0
    /\ DOMAIN sessions # {}

StudyOps == {"query", "explain", "explain_concept", "compare"}
ExplainOps == {"explain", "explain_concept"}
FailedCalls == {"similarity_search", "llm.predict"}
Last(lst) == lst[Len(lst)]

PartnerOps == {"query", "explain", "compare", "generate_quiz", "get_session",
               "clear_session"}

\* C11, as claimed: if the study partner failed to construct at startup,
\* every request to the API is answered 503.
C11_UnavailableEverywhere ==
    (~study_partner /\ response.op # "none") => response.status = 503

\* C11, amended: if the study partner failed to construct, every request
\* that reaches a handler using it (query, explain, compare, quiz
\* generation, session lookup, session clear) is answered 503; a quiz
\* submission is answered 404, the health and statistics endpoints 200
\* reporting the partner as not initialised, a body failing validation 422;
\* the partner is never initialised later and no request changes stored
\* state.
C11_UnavailableWhereUsed ==
    /\ [](~study_partner =>
            /\ response.op \in PartnerOps =>
                  \/ response.status = 503
                  \/ response.status = 422 /\ response.op = "explain"
            /\ response.op = "submit_quiz" => response.status = 404
            /\ response.op \in {"health_check", "get_stats"} =>
                  response.status = 200 /\ ~response.study_partner_initialized
            /\ response.op \in PartnerOps \cup {"none", "submit_quiz", "health_check",
                                                "get_stats"}
            /\ sessions = <<>> /\ active_quizzes = <<>> /\ added = <<>>)
    /\ [][study_partner' = study_partner /\ max_history' = max_history
          /\ index' = index]_vars

C11_Witness ==
    /\ ~study_partner
    /\ response.op = "generate_quiz"
    /\ response.status = 503
    /\ Len(index) > 0

\* C12, as claimed: an explanation request with a detail level outside
\* brief, medium, detailed produces no error and is answered as for medium.
C12_UnknownLevelSucceeds ==
    (response.op \in ExplainOps /\ response.status # 503
     /\ response.req.detail_level \notin DetailLevels) =>
        /\ response.status \in {200, 500}
        /\ response.status = 200 =>
              response.question = explain_question(response.req.concept, "medium")

\* C12, amended: explain_concept called with a detail level outside brief,
\* medium, detailed uses the medium instruction without the detailed-only
\* items and raises nothing on account of the level; at POST /api/explain
\* such a request is rejected with 422 before the partner is called.
C12_UnknownLevelAtPartner ==
    (response.op \in ExplainOps /\ "req" \in DOMAIN response
     /\ response.req.detail_level \notin DetailLevels) =>
        IF response.op = "explain"
        THEN response.status = 422 /\ "answer" \notin DOMAIN response
        ELSE /\ response.status \in {200, 500}
             /\ response.status = 500 => Last(response.calls) \in FailedCalls
             /\ response.status = 200 =>
                   LET q == response.prompt.question
                   IN  /\ q = response.question
                       /\ \A i \in DOMAIN detail_instructions["medium"] :
                             Contains(q, detail_instructions["medium"][i])
                       /\ q = explain_question(response.req.concept, "medium")
                       /\ ~Contains(q, "concise 2-3 sentence")
                       /\ ~Contains(q, "4. Best practices")
                       /\ ~Contains(q, "5. Exam tips")

C12_Witness ==
    /\ response.op = "explain_concept"
    /\ response.status = 200
    /\ response.req.detail_level = "expert"
    /\ Len(response.question) = 8

\* C13: the instruction explain_concept hands to the generator contains the
\* "concise 2-3 sentence" directive exactly at brief, the "Best practices"
\* and "Exam tips" items exactly at detailed, and the three base items at
\* every level.
C13_InstructionByLevel ==
    (response.op \in ExplainOps /\ response.status = 200) =>
        LET q == response.prompt.question
            level == response.req.detail_level
        IN  /\ Contains(q, "concise 2-3 sentence") <=> level = "brief"
            /\ Contains(q, "4. Best practices") <=> level = "detailed"
            /\ Contains(q, "5. Exam tips") <=> level = "detailed"
            /\ Contains(q, "1. What it is")
            /\ Contains(q, "2. Key features")
            /\ Contains(q, "3. Common use cases")
            /\ Contains(q, response.req.concept)

C13_Witness ==
    /\ response.op = "explain"
    /\ response.status = 200
    /\ response.req.detail_level = "brief"
    /\ Contains(response.prompt.question, "concise 2-3 sentence")
    /\ ~Contains(response.prompt.question, "4. Best practices")

\* C14: a query, explain or compare request whose retrieval or generation
\* fails ends in 500 with the original message, without answer or sources,
\* whichever step failed; it never ends as 200, 404 or 503.
C14_FailureIsServerError ==
    (response.op \in StudyOps /\ "calls" \in DOMAIN response) =>
        /\ Last(response.calls) \in FailedCalls =>
              /\ response.status = 500
              /\ response.detail =
                    (IF Last(response.calls) = "similarity_search"
                     THEN "retrieval_error" ELSE "generation_error")
              /\ DOMAIN response \cap {"answer", "sources", "num_sources", "prompt"} = {}
        /\ response.status = 200 => Last(response.calls) = "add_message"

C14_Witness ==
    /\ response.op = "compare"
    /\ response.status = 500
    /\ response.detail = "generation_error"
    /\ Last(response.calls) = "llm.predict"
    /\ DOMAIN sessions # {}

\* C19: an explanation is a query with top_k = 6 and a comparison a query
\* with top_k = 8, whatever the request holds: at most 6, respectively 8,
\* sources, and the result and the recording are those of a query.
C19_DelegatesWithFixedTopK ==
    (response.op \in {"explain", "compare"} /\ response.status = 200) =>
        LET k == IF response.op = "explain" THEN ExplainTopK ELSE CompareTopK
            h == get_history(sessions, response.session_id)
        IN  /\ Len(response.sources) = Min(k, Len(index))
            /\ response.num_sources = Len(response.sources)
            /\ Len(response.prompt.context) = Len(response.sources)
            /\ "top_k" \notin DOMAIN response.req
            /\ DOMAIN response = {"op", "status", "req", "question", "answer", "sources",
                                  "num_sources", "session_id", "prompt", "calls"}
            /\ h # <<>>
            /\ Last(h).question = response.question
            /\ Last(h).answer = response.answer

C19_Witness ==
    /\ response.op = "explain"
    /\ response.status = 200
    /\ Len(index) = CompareTopK + 1
    /\ response.num_sources = ExplainTopK

QueryOrder == <<"get_history", "similarity_search", "llm.predict", "add_message">>
Front(lst) == SubSeq(lst, 1, Len(lst) - 1)
Occurrences(lst, x) == Cardinality({i \in DOMAIN lst : lst[i] = x})
\* block renders the last min(3, h) entries of history, in order, each
\* answer cut to 100 characters and followed by the dots
BlockShows(block, history) ==
    LET n == Min(HistoryTurns, Len(history))
    IN  /\ Len(block) = n
        /\ \A i \in 1..n :
              LET entry == history[Len(history) - n + i]
              IN  /\ block[i].question = entry.question
                  /\ block[i].answer.id = entry.answer.id
                  /\ block[i].answer.len = Min(entry.answer.len, HistoryAnswerChars) + 3

\* C15: a query appends exactly one entry, the current question with the
\* generated answer as newest entry, to the target session's history if and
\* only if it succeeds (the entries before it are the newest of the previous
\* history, all of them while the window is not full); a failed query leaves
\* every history as it was.
C15_RecordsIffSucceeds ==
    [][response'.op = "query" =>
          IF response'.status = 200
          THEN LET sid == response'.session_id
                   old == get_history(sessions, sid)
                   new == get_history(sessions', sid)
               IN  /\ new # <<>>
                   /\ Last(new).question = response'.question
                   /\ Last(new).answer = response'.answer
                   /\ Len(new) = Min(Len(old) + 1, max_history)
                   /\ Front(new) = LastOf(old, Len(new) - 1)
                   /\ Len(DictGet(added', sid, <<>>)) = Len(DictGet(added, sid, <<>>)) + 1
                   /\ \A t \in (DOMAIN sessions \cup DOMAIN sessions') \ {sid} :
                         get_history(sessions', t) = get_history(sessions, t)
          ELSE sessions' = sessions /\ added' = added]_vars

C15_Witness ==
    /\ response.op = "query"
    /\ response.status = 200
    /\ response.session_id = "s1"
    /\ Len(added["s1"]) = DefaultMaxHistory + 1
    /\ Len(sessions["s1"]) = DefaultMaxHistory

\* C16: a query with a session id returns that id, reads the history of it
\* and records under it; a query without one (absent or empty) gets a fresh
\* id that no stored session has, sees no history, creates exactly one
\* session of exactly one entry and leaves the other sessions unchanged.
C16_SessionIdentity ==
    [][(response'.op = "query" /\ response'.status = 200) =>
          LET given == response'.req.session_id
              sid == response'.session_id
              block == response'.prompt.history_context
          IN  IF given \notin {None, ""}
              THEN /\ sid = given
                   /\ BlockShows(block, get_history(sessions, given))
                   /\ DOMAIN sessions' = DOMAIN sessions \cup {given}
                   /\ Last(sessions'[given]).question = response'.question
                   /\ \A t \in DOMAIN sessions \ {given} : sessions'[t] = sessions[t]
              ELSE /\ sid \notin DOMAIN sessions \cup SessionIds \cup {None, ""}
                   /\ block = <<>>
                   /\ DOMAIN sessions' = DOMAIN sessions \cup {sid}
                   /\ Len(sessions'[sid]) = 1
                   /\ \A t \in DOMAIN sessions : sessions'[t] = sessions[t]]_vars

C16_Witness ==
    /\ response.op = "query"
    /\ response.status = 200
    /\ response.req.session_id = ""
    /\ response.session_id = UuidNames[2]
    /\ Cardinality(DOMAIN sessions) = 3

\* C17: the history block of a query on session s shows exactly the last
\* min(3, h) entries of the history s had before the query, oldest first,
\* each answer cut to 100 characters; it is absent when h = 0, and the
\* current question and answer are never in it.
C17_HistoryBlock ==
    [][(response'.op = "query" /\ response'.status = 200) =>
          LET h == get_history(sessions, response'.session_id)
              block == response'.prompt.history_context
          IN  /\ BlockShows(block, h)
              /\ h = <<>> => block = <<>>
              /\ Len(block) < Len(get_history(sessions', response'.session_id))
              /\ response'.prompt.question = response'.question]_vars

C17_Witness ==
    /\ response.op = "query"
    /\ response.status = 200
    /\ response.session_id = "s1"
    /\ Len(response.prompt.history_context) = HistoryTurns
    /\ Len(sessions["s1"]) = DefaultMaxHistory
    /\ response.prompt.history_context[1].answer.len = HistoryAnswerChars + 3
    /\ response.prompt.history_context[2].answer.len < HistoryAnswerChars

\* C18: a query runs read history, retrieve, assemble and generate, record,
\* return in this order; a successful query calls the retrieval and the
\* generator once each, and a failed call is the last call of its request.
C18_CallOrder ==
    /\ []((response.op = "query" /\ "calls" \in DOMAIN response) =>
            LET c == response.calls
            IN  /\ c = SubSeq(QueryOrder, 1, Len(c))
                /\ \A x \in {"similarity_search", "llm.predict"} : Occurrences(c, x) <= 1
                /\ response.status = 200 <=> c = QueryOrder
                /\ response.status = 500 =>
                      Last(c) = (IF response.detail = "retrieval_error"
                                 THEN "similarity_search" ELSE "llm.predict"))
    /\ [][(response'.op = "query" /\ "calls" \in DOMAIN response') =>
            (Occurrences(response'.calls, "add_message") = 1 <=> sessions' # sessions)]_vars

C18_Witness ==
    /\ response.op = "query"
    /\ response.status = 500
    /\ response.detail = "retrieval_error"
    /\ response.calls = <<"get_history", "similarity_search">>
    /\ "s1" \in DOMAIN sessions

\* C20: quiz generation retrieves its candidates among the documents whose
\* doc_type is "questions", so every question of a quiz comes from such a
\* document whenever the index holds documents with that metadata. (Stated
\* as claimed; the retrieval passes no filter.)
C20_QuizFromQuestionDocs ==
    (\E j \in DOMAIN index : DictGet(index[j].metadata, "doc_type", "unknown") = "questions") =>
        \A id \in DOMAIN active_quizzes :
            \A i \in DOMAIN active_quizzes[id].questions :
                LET doc == index[active_quizzes[id].questions[i].question.id]
                IN  DictGet(doc.metadata, "doc_type", "unknown") = "questions"

\* C22: within one process the verdict on an answer is a fixed function of its
\* text alone: every graded result carries the answer given to its question
\* ("" when none was given) and the verdict that the process's hash of that
\* text decides, whatever the question and the quiz, so equal texts get equal
\* verdicts and an empty or missing answer is incorrect; the hash never
\* changes; and two submissions to the same quiz that give every question the
\* same answer get the same score, correct_answers and passed.
Verdict(text) == text # "" /\ str_hash[text] % 2 = 1

GradedOk(r) == r.op = "submit_quiz" /\ r.status = 200

C22_VerdictByTextAlone ==
    /\ [](GradedOk(response) =>
            /\ \A i \in 1..Len(response.results) :
                  LET r == response.results[i]
                  IN  /\ r.user_answer = DictGet(response.req.answers, r.question_id, "")
                      /\ r.is_correct = Verdict(r.user_answer)
                      /\ r.user_answer = "" => ~r.is_correct
            /\ \A i, j \in 1..Len(response.results) :
                  response.results[i].user_answer = response.results[j].user_answer
                  => response.results[i].is_correct = response.results[j].is_correct)
    /\ [][str_hash' = str_hash]_vars
    /\ [][(/\ GradedOk(response) /\ GradedOk(response')
           /\ response.quiz_id = response'.quiz_id
           /\ \A i \in 1..Len(response.results) :
                 response.results[i].user_answer = response'.results[i].user_answer)
          => /\ response'.score = response.score
             /\ response'.correct_answers = response.correct_answers
             /\ response'.passed = response.passed]_vars

\* a three-question quiz graded with the same text on two questions, one of
\* them answered with the text the hash accepts, and the third unanswered
C22_Witness ==
    /\ GradedOk(response)
    /\ Len(response.results) = 3
    /\ response.results[1].user_answer = response.results[2].user_answer
    /\ response.results[1].is_correct
    /\ response.results[3].user_answer = ""

\* C23: a step changes the history of no session but the one it is about:
\* add_message, clear_session and a query on session s leave every other
\* session as it was, present or absent, and quiz generation and quiz
\* submission leave the whole session map as it was.
Target(r) == IF "session_id" \in DOMAIN r THEN {r.session_id} ELSE {}

C23_OtherSessionsUntouched ==
    [][/\ \A t \in (DOMAIN sessions \cup DOMAIN sessions') \ Target(response') :
             /\ t \in DOMAIN sessions /\ t \in DOMAIN sessions'
             /\ sessions'[t] = sessions[t]
       /\ response'.op \in {"generate_quiz", "submit_quiz", "get_session", "get_stats"}
          => sessions' = sessions]_vars

\* s1 has just been cleared while s2 still holds its two entries and a quiz
\* is stored
C23_Witness ==
    /\ response.op = "clear_session" /\ response.status = 200
    /\ response.session_id = "s1"
    /\ "s1" \notin DOMAIN sessions
    /\ "s2" \in DOMAIN sessions /\ Len(sessions["s2"]) = 2
    /\ active_quizzes # <<>>

\* C24: with a maximum of at least 1, every stored session holds between 1
\* and max_history entries, the stored sessions are exactly those with a
\* query recorded since their last clear, get_session_info reports exists
\* exactly for the stored ids with questions_asked in 1..max_history, and
\* active_sessions counts the sessions recorded since their last clear.
C24_NoEmptySession ==
    max_history >= 1 =>
        /\ \A s \in DOMAIN sessions : Len(sessions[s]) \in 1..max_history
        /\ DOMAIN sessions = DOMAIN added
        /\ (response.op = "get_session" /\ response.status = 200) =>
              /\ response.info.exists = (response.info.session_id \in DOMAIN sessions)
              /\ response.info.exists => response.info.questions_asked \in 1..max_history
        /\ (response.op = "get_stats" /\ response.study_partner_initialized) =>
              response.active_sessions = Cardinality(DOMAIN added)

\* s1 is reported with a full window after more additions than the window
\* holds
C24_Witness ==
    /\ max_history >= 1
    /\ response.op = "get_session" /\ response.status = 200
    /\ response.info.session_id = "s1" /\ response.info.exists
    /\ response.info.questions_asked = max_history
    /\ Len(added["s1"]) > max_history

\* C25: over an empty index quiz generation fails only when the search itself
\* fails, and otherwise stores and returns a quiz without questions; a
\* submission to a stored quiz without questions is answered 200 with score
\* 0, total_questions 0, correct_answers 0, no results and passed false.
C25_EmptyQuiz ==
    /\ (response.op = "generate_quiz" /\ response.status # 503 /\ Len(index) = 0) =>
          \/ response.status = 500 /\ response.detail = "retrieval_error"
          \/ /\ response.status = 200
             /\ response.questions = <<>> /\ response.total_questions = 0
             /\ response.quiz_id \in DOMAIN active_quizzes
             /\ active_quizzes[response.quiz_id].questions = <<>>
    /\ (/\ response.op = "submit_quiz"
        /\ response.req.quiz_id \in DOMAIN active_quizzes
        /\ active_quizzes[response.req.quiz_id].questions = <<>>) =>
          /\ response.status = 200
          /\ response.score = 0 /\ response.total_questions = 0
          /\ response.correct_answers = 0 /\ response.results = <<>>
          /\ response.passed = FALSE

\* answers were submitted to a quiz generated over the empty index
C25_Witness ==
    /\ response.op = "submit_quiz" /\ response.status = 200
    /\ Len(index) = 0
    /\ response.total_questions = 0
    /\ response.req.answers # <<>>


\* C26: a call with a positive batch size attempts batches that start at
\* start_from, follow one another without gap or overlap and hold between 1
\* and batch_size chunks; a call that returns has reached the end of the
\* list, a call that raises stopped at the batch it names, and a call made
\* with that start_from begins there. When the calls form a chain of resumes
\* begun on an empty index, with every failing batch stored not at all, the
\* index holds each chunk from the chain's first start_from up to the point
\* reached exactly once and no other chunk.
Uploads(j) == Cardinality({k \in 1..Len(index) : index[k].metadata.chunk_id = j})

Reached == IF response.status = "returned" THEN response.req.chunks ELSE response.failed_at

C26_UploadResumes ==
    (response.op = "upload_documents" /\ response.req.batch_size >= 1) =>
        LET b == response.batches
            req == response.req
        IN  /\ \A k \in 1..Len(b) :
                  /\ b[k].from = IF k = 1 THEN req.start_from ELSE b[k - 1].to
                  /\ b[k].to - b[k].from \in 1..req.batch_size
                  /\ b[k].to <= req.chunks
            /\ response.status = "returned" =>
                  IF req.start_from < req.chunks
                  THEN b # <<>> /\ b[Len(b)].to = req.chunks
                  ELSE b = <<>>
            /\ response.status = "raised" =>
                  b # <<>> /\ response.failed_at = b[Len(b)].from
            /\ response.first <= req.start_from
            /\ response.clean =>
                  /\ \A j \in 0..(MaxChunks - 1) :
                        Uploads(j) = IF response.first <= j /\ j < Reached THEN 1 ELSE 0
                  /\ Len(index) = Max(Reached - response.first, 0)

\* the whole list has been stored by a call resumed where an earlier call
\* failed, in batches of two
C26_Witness ==
    /\ response.op = "upload_documents" /\ response.status = "returned"
    /\ response.clean
    /\ response.req.chunks = MaxChunks /\ response.req.batch_size = 2
    /\ response.first = 0 /\ response.req.start_from = 2
    /\ Len(index) = MaxChunks


\* What two requests handled one after the other, x and then y, leave behind
\* on an empty store: the history each one read and the pairs stored.
Recorded(r) == study_partner /\ inflight[r].outcome = "ok"

PairOf(r) == <<inflight[r].question, ShortAnswer>>

AllDone == DOMAIN inflight = Requests /\ \A r \in Requests : inflight[r].pc = "done"

SerialAfter(x, y) ==
    LET sx == IF Recorded(x) THEN DictPut(<<>>, inflight[x].session_id, <<PairOf(x)>>)
              ELSE <<>>
        hy == IF study_partner THEN DictGet(sx, inflight[y].session_id, <<>>) ELSE <<>>
        sy == IF Recorded(y)
              THEN DictPut(sx, inflight[y].session_id, Append(hy, PairOf(y)))
              ELSE sx
    IN  /\ Pairs(inflight[x].history) = <<>>
        /\ Pairs(inflight[y].history) = hy
        /\ [s \in DOMAIN sessions |-> Pairs(sessions[s])] = sy

====
